---- MODULE Spec2Model ----
(***************************************************************************)
(* A model of businessdatetime/__init__.py: the BusinessDatetime wrapper   *)
(* (normalisation of a timestamp into working hours, subtraction of two    *)
(* wrapped timestamps) and the BusinessDatetimeCalculator.                 *)
(*                                                                         *)
(* A datetime is the number of seconds since 00:00:00 on 1 January of      *)
(* ExampleYear; a timedelta is a signed number of seconds.  Working hours  *)
(* are given in eighths of an hour (68 is 8.5, i.e. 08:30), which are      *)
(* exactly the values a float holds without rounding.                      *)
(***************************************************************************)
EXTENDS Integers, Sequences, FiniteSets, TLC

VARIABLES working_hours, working_days, bdt, bdt2, bdtc, out, pc

vars == <<working_hours, working_days, bdt, bdt2, bdtc, out, pc>>

(***************************************************************************)
(* Bounds of the model.                                                    *)
(***************************************************************************)
\* the input dates are the days 3 .. 3 + MaxDayOffset of May and of June
MaxDayOffset == 3
\* the days a datetime can hold run from CalendarMargin days before 1 May to
\* CalendarMargin days after 1 July (datetime.min and datetime.max in the model)
CalendarMargin == 14

\* the year of the usage examples; the model's datetime.min is its 1 January
ExampleYear == 2016

(***************************************************************************)
(* The datetime primitive (python's datetime / timedelta).                 *)
(***************************************************************************)
SecondsPerDay == 24 * 60 * 60

IsLeap(y) == (y % 4 = 0) /\ ((y % 100 # 0) \/ (y % 400 = 0))

DaysInMonth(y, m) ==
    IF m = 2 THEN (IF IsLeap(y) THEN 29 ELSE 28)
    ELSE IF m \in {4, 6, 9, 11} THEN 30 ELSE 31

DaysInYear(y) == IF IsLeap(y) THEN 366 ELSE 365

RECURSIVE DaysBeforeYear(_)
DaysBeforeYear(y) ==
    IF y <= ExampleYear THEN 0 ELSE DaysBeforeYear(y - 1) + DaysInYear(y - 1)

RECURSIVE DaysBeforeMonth(_, _)
DaysBeforeMonth(y, m) ==
    IF m <= 1 THEN 0 ELSE DaysBeforeMonth(y, m - 1) + DaysInMonth(y, m - 1)

\* the day number of y-m-d, 0 for 1 January of ExampleYear
Ordinal(y, m, d) == DaysBeforeYear(y) + DaysBeforeMonth(y, m) + (d - 1)

MinOrdinal == Ordinal(ExampleYear, 5, 1) - CalendarMargin
MaxOrdinal == Ordinal(ExampleYear, 7, 1) + CalendarMargin

\* <<year, month, day>> of a day number
RECURSIVE YMDFrom(_, _, _)
YMDFrom(y, m, n) ==
    IF n < DaysInMonth(y, m) THEN <<y, m, n + 1>>
    ELSE IF m = 12 THEN YMDFrom(y + 1, 1, n - DaysInMonth(y, m))
    ELSE YMDFrom(y, m + 1, n - DaysInMonth(y, m))

YMD(n) == YMDFrom(ExampleYear, 1, n)

\* datetime(y, m, d, h, mi, s) raises ValueError unless the fields are in range
DatetimeOK(y, m, d, h, mi, s) ==
    /\ m \in 1..12
    /\ d \in 1..DaysInMonth(y, m)
    /\ Ordinal(y, m, d) \in MinOrdinal..MaxOrdinal
    /\ h \in 0..23
    /\ mi \in 0..59
    /\ s \in 0..59

Datetime(y, m, d, h, mi, s) ==
    Ordinal(y, m, d) * SecondsPerDay + (h * 60 + mi) * 60 + s

DateOrd(t) == t \div SecondsPerDay
YearOf(t) == YMD(DateOrd(t))[1]
MonthOf(t) == YMD(DateOrd(t))[2]
DayOf(t) == YMD(DateOrd(t))[3]

\* datetime.weekday(): 0 = Monday .. 6 = Sunday (1 January 2016 is a Friday)
Weekday(t) == (DateOrd(t) + 4) % 7

\* datetime + timedelta raises OverflowError outside datetime.min .. datetime.max
InRange(t) == DateOrd(t) \in MinOrdinal..MaxOrdinal

(***************************************************************************)
(* __init__ of both classes: the working hours as hour and minute.         *)
(***************************************************************************)
\* divmod(f * 60, 60)[0], then int(): f is in eighths of an hour, so f * 60
\* minutes are f * 15 half-minutes
WorkingHour(f8) == (f8 * 15) \div 120

\* divmod(f * 60, 60)[1], then int(), which drops the half minute
WorkingMinute(f8) == ((f8 * 15) % 120) \div 2

None == [none |-> TRUE]

\* BusinessDatetime.__init__ raises exactly when one of its two datetime(...)
\* calls does
BusinessDatetimeInitOK(dt, wh) ==
    /\ DatetimeOK(YearOf(dt), MonthOf(dt), DayOf(dt),
                  WorkingHour(wh[2]), WorkingMinute(wh[2]), 0)
    /\ DatetimeOK(YearOf(dt), MonthOf(dt), DayOf(dt),
                  WorkingHour(wh[1]), WorkingMinute(wh[1]), 0)

BusinessDatetimeInit(dt, wh, wd) ==
    [ original_datetime      |-> dt,
      start_working_hour     |-> WorkingHour(wh[1]),
      start_working_minute   |-> WorkingMinute(wh[1]),
      end_working_hour       |-> WorkingHour(wh[2]),
      end_working_minute     |-> WorkingMinute(wh[2]),
      working_days           |-> wd,
      current_work_day_end   |-> Datetime(YearOf(dt), MonthOf(dt), DayOf(dt),
                                          WorkingHour(wh[2]), WorkingMinute(wh[2]), 0),
      current_work_day_start |-> Datetime(YearOf(dt), MonthOf(dt), DayOf(dt),
                                          WorkingHour(wh[1]), WorkingMinute(wh[1]), 0) ]

\* BusinessDatetimeCalculator.__init__ builds no datetime: it never raises
CalculatorInit(wh, wd) ==
    [ start_working_hour   |-> WorkingHour(wh[1]),
      start_working_minute |-> WorkingMinute(wh[1]),
      end_working_hour     |-> WorkingHour(wh[2]),
      end_working_minute   |-> WorkingMinute(wh[2]),
      working_days         |-> wd ]

(***************************************************************************)
(* What a call returns: err is "none" or the exception it raised; val is   *)
(* the datetime or the timedelta returned; steps, day_difference and       *)
(* dont_count_days are the values of the call's loop counters.             *)
(***************************************************************************)
Returned(v, n) ==
    [err |-> "none", val |-> v, steps |-> n, day_difference |-> 0, dont_count_days |-> 0]

Raised(e, n) ==
    [err |-> e, val |-> 0, steps |-> n, day_difference |-> 0, dont_count_days |-> 0]

(***************************************************************************)
(* BusinessDatetime: normalisation.                                        *)
(***************************************************************************)
\* the least element of a non-empty set of numbers
Least(S) == CHOOSE x \in S : \A y \in S : x <= y

\* next_search without its loop: the day after, whatever its weekday
next_search_no_skip(d, wd, n) == Returned(d, n)

\* while d.weekday() not in self.working_days: d += timedelta(days=1)
\* The loop leaves at the first of d, d + 1 day, ... whose weekday is a working
\* day, after that many steps; when there is none up to datetime.max, the
\* step past datetime.max raises OverflowError.  n is the number of day-steps
\* taken before the loop.
next_search(d, wd, n) ==
    LET last == MaxOrdinal - DateOrd(d)
        hits == {k \in 0..last : Weekday(d + k * SecondsPerDay) \in wd}
    IN  IF hits = {} THEN Raised("OverflowError", n + last)
        ELSE Returned(d + Least(hits) * SecondsPerDay, n + Least(hits))

next_business_day_start(o) ==
    LET dt == o.original_datetime
        d0 == Datetime(YearOf(dt), MonthOf(dt), DayOf(dt),
                       o.start_working_hour, o.start_working_minute, 0)
    IN  IF ~InRange(d0 + SecondsPerDay) THEN Raised("OverflowError", 0)
        ELSE next_search(d0 + SecondsPerDay, o.working_days, 1)

\* previous_search without its loop: the day before, whatever its weekday
previous_search_no_skip(d, wd, n) == Returned(d, n)

\* while d.weekday() not in self.working_days: d -= timedelta(days=1)
\* The same loop backwards, down to datetime.min.
previous_search(d, wd, n) ==
    LET last == DateOrd(d) - MinOrdinal
        hits == {k \in 0..last : Weekday(d - k * SecondsPerDay) \in wd}
    IN  IF hits = {} THEN Raised("OverflowError", n + last)
        ELSE Returned(d - Least(hits) * SecondsPerDay, n + Least(hits))

previous_business_day_end(o) ==
    LET dt == o.original_datetime
        d0 == Datetime(YearOf(dt), MonthOf(dt), DayOf(dt),
                       o.end_working_hour, o.end_working_minute, 0)
    IN  IF ~InRange(d0 - SecondsPerDay) THEN Raised("OverflowError", 0)
        ELSE previous_search(d0 - SecondsPerDay, o.working_days, 1)

\* rollforward that forgets to add the overflow to the next start
rollforward_drops_overflow(o) == next_business_day_start(o)

rollforward(o) ==
    LET dt == o.original_datetime
        overflow == Datetime(YearOf(dt), MonthOf(dt), DayOf(dt),
                             o.end_working_hour, o.end_working_minute, 0)
        td == dt - overflow
        nb == next_business_day_start(o)
    IN  IF nb.err # "none" THEN nb
        ELSE IF ~InRange(nb.val + td) THEN Raised("OverflowError", nb.steps)
        ELSE Returned(nb.val + td, nb.steps)

rollback(o) ==
    LET dt == o.original_datetime
        underflow == Datetime(YearOf(dt), MonthOf(dt), DayOf(dt),
                              o.start_working_hour, o.start_working_minute, 0)
        td == underflow - dt
        pb == previous_business_day_end(o)
    IN  IF pb.err # "none" THEN pb
        ELSE IF ~InRange(pb.val - td) THEN Raised("OverflowError", pb.steps)
        ELSE Returned(pb.val - td, pb.steps)

out_of_bounds(o) ==
    \/ o.original_datetime > o.current_work_day_end
    \/ o.original_datetime < o.current_work_day_start

business_datetime(o) ==
    IF o.original_datetime > o.current_work_day_end THEN rollforward(o)
    ELSE IF o.original_datetime < o.current_work_day_start THEN rollback(o)
    ELSE Returned(o.original_datetime, 0)

(***************************************************************************)
(* BusinessDatetime: subtraction.                                          *)
(***************************************************************************)
remaining_time(o) ==
    LET b == business_datetime(o)
    IN  IF b.err # "none" THEN b ELSE Returned(o.current_work_day_end - b.val, 0)

passed_time(o) ==
    LET b == business_datetime(o)
    IN  IF b.err # "none" THEN b ELSE Returned(b.val - o.current_work_day_start, 0)

\* while d.day != self.business_datetime.day: the loop of calc_diff, which
\* returns its two counters
RECURSIVE calc_diff_walk(_, _, _, _, _)
calc_diff_walk(d, day, wd, dd, dc) ==
    IF DayOf(d) = day
    THEN [err |-> "none", day_difference |-> dd, dont_count_days |-> dc]
    ELSE IF ~InRange(d + SecondsPerDay)
    THEN [err |-> "OverflowError", day_difference |-> dd, dont_count_days |-> dc]
    ELSE calc_diff_walk(d + SecondsPerDay, day, wd, dd + 1,
                        IF Weekday(d + SecondsPerDay) \notin wd THEN dc + 1 ELSE dc)

\* calc_diff_days without the - 1
calc_diff_days_no_minus_one(day_difference, dont_count_days) ==
    day_difference - dont_count_days

\* number_of_non_working_days = day_difference - 1 - dont_count_days
calc_diff_days(day_difference, dont_count_days) ==
    day_difference - 1 - dont_count_days

calc_diff(self, other) ==
    LET lesser == remaining_time(other)
        greater == passed_time(self)
    IN  IF lesser.err # "none" THEN lesser
        ELSE IF greater.err # "none" THEN greater
        ELSE
          LET seconds_in_workday ==
                  self.current_work_day_end - self.current_work_day_start
              w == calc_diff_walk(business_datetime(other).val,
                                  DayOf(business_datetime(self).val),
                                  self.working_days, 0, 0)
          IN  IF w.err # "none" THEN Raised(w.err, 0)
              ELSE [ err |-> "none",
                     val |-> (lesser.val + greater.val)
                             + calc_diff_days(w.day_difference, w.dont_count_days)
                               * seconds_in_workday,
                     steps |-> 0,
                     day_difference |-> w.day_difference,
                     dont_count_days |-> w.dont_count_days ]

\* self - other for a BusinessDatetime other
Sub(self, other) == calc_diff(self, other)

(***************************************************************************)
(* BusinessDatetimeCalculator.                                             *)
(***************************************************************************)
get_work_day_end_ok(c, dt) ==
    DatetimeOK(YearOf(dt), MonthOf(dt), DayOf(dt),
               c.end_working_hour, c.end_working_minute, 0)

get_work_day_end(c, dt) ==
    Datetime(YearOf(dt), MonthOf(dt), DayOf(dt),
             c.end_working_hour, c.end_working_minute, 0)

get_work_day_start_ok(c, dt) ==
    DatetimeOK(YearOf(dt), MonthOf(dt), DayOf(dt),
               c.start_working_hour, c.start_working_minute, 0)

get_work_day_start(c, dt) ==
    Datetime(YearOf(dt), MonthOf(dt), DayOf(dt),
             c.start_working_hour, c.start_working_minute, 0)

calculator_remaining_time(c, dt) == get_work_day_end(c, dt) - dt

calculator_passed_time(c, dt) == dt - get_work_day_start(c, dt)

Min(a, b) == IF b < a THEN b ELSE a
Max(a, b) == IF b > a THEN b ELSE a

\* while d.day != greater_date.day: the loop of subtract
RECURSIVE subtract_walk(_, _, _, _, _)
subtract_walk(d, day, wd, dd, dc) ==
    IF DayOf(d) = day
    THEN [err |-> "none", day_difference |-> dd, dont_count_days |-> dc]
    ELSE IF ~InRange(d + SecondsPerDay)
    THEN [err |-> "OverflowError", day_difference |-> dd, dont_count_days |-> dc]
    ELSE subtract_walk(d + SecondsPerDay, day, wd, dd + 1,
                       IF Weekday(d + SecondsPerDay) \notin wd THEN dc + 1 ELSE dc)

\* number_of_non_working_days = day_difference - 1 - dont_count_days
subtract_days(day_difference, dont_count_days) ==
    day_difference - 1 - dont_count_days

subtract(c, d1, d2) ==
    LET lesser_date == Min(d1, d2)
        greater_date == Max(d1, d2)
    IN  IF ~get_work_day_end_ok(c, lesser_date) THEN Raised("ValueError", 0)
        ELSE IF ~get_work_day_start_ok(c, greater_date) THEN Raised("ValueError", 0)
        ELSE
          LET seconds_in_workday ==
                  ((c.end_working_hour * 60 + c.end_working_minute) * 60)
                  - ((c.start_working_hour * 60 + c.start_working_minute) * 60)
              w == subtract_walk(lesser_date, DayOf(greater_date), c.working_days, 0, 0)
          IN  IF w.err # "none" THEN Raised(w.err, 0)
              ELSE [ err |-> "none",
                     val |-> (calculator_remaining_time(c, lesser_date)
                              + calculator_passed_time(c, greater_date))
                             + subtract_days(w.day_difference, w.dont_count_days)
                               * seconds_in_workday,
                     steps |-> 0,
                     day_difference |-> w.day_difference,
                     dont_count_days |-> w.dont_count_days ]

(***************************************************************************)
(* The inputs.                                                             *)
(***************************************************************************)
MondayToFriday == {0, 1, 2, 3, 4}

\* working_hours (in eighths of an hour) and working_days a caller may pass:
\* the defaults (8.5, 17), the (9, 17) of the usage examples, a one-hour
\* day, a window with a half minute to drop and two working days a week, and
\* four that the constructors are meant to refuse
Clocks ==
    { [hours |-> <<68, 136>>, days |-> MondayToFriday],
      [hours |-> <<72, 136>>, days |-> MondayToFriday],
      [hours |-> <<72, 80>>,  days |-> MondayToFriday],
      [hours |-> <<65, 136>>, days |-> {1, 3}],
      [hours |-> <<136, 72>>, days |-> MondayToFriday],
      [hours |-> <<72, 192>>, days |-> MondayToFriday],
      [hours |-> <<-8, 136>>, days |-> MondayToFriday],
      [hours |-> <<68, 136>>, days |-> {}] }

TimesOfDay ==
    { <<0, 0, 0>>, <<8, 30, 0>>, <<12, 0, 0>>, <<17, 0, 0>>, <<17, 0, 30>>,
      <<23, 59, 59>> }

\* the timestamps a caller passes: 3 May/June .. (3 + MaxDayOffset) May/June
Timestamps ==
    { Datetime(ExampleYear, m, d, t[1], t[2], t[3]) :
        m \in {5, 6}, d \in 3..(3 + MaxDayOffset), t \in TimesOfDay }

NoOut == [op |-> "none", args |-> <<>>, ret |-> Returned(0, 0)]

(***************************************************************************)
(* The calls a caller makes (usage_examples).                              *)
(***************************************************************************)
Init ==
    /\ \E c \in Clocks : working_hours = c.hours /\ working_days = c.days
    /\ bdt = None
    /\ bdt2 = None
    /\ bdtc = None
    /\ out = NoOut
    /\ pc = "start"

\* bdt = BusinessDatetime(dt, working_hours, working_days)
NewBusinessDatetime ==
    /\ pc = "start"
    /\ \E dt \in Timestamps :
         IF BusinessDatetimeInitOK(dt, working_hours)
         THEN /\ bdt' = BusinessDatetimeInit(dt, working_hours, working_days)
              /\ pc' = "bdt"
              /\ out' = out
         ELSE /\ bdt' = bdt
              /\ pc' = "raised"
              /\ out' = [op |-> "BusinessDatetime", args |-> <<dt>>,
                         ret |-> Raised("ValueError", 0)]
    /\ UNCHANGED <<working_hours, working_days, bdt2, bdtc>>

\* print bdt: bdt.business_datetime
PrintBusinessDatetime ==
    /\ pc = "bdt"
    /\ out' = [op |-> "business_datetime", args |-> <<bdt.original_datetime>>,
               ret |-> business_datetime(bdt)]
    /\ pc' = IF business_datetime(bdt).err = "none" THEN "printed" ELSE "raised"
    /\ UNCHANGED <<working_hours, working_days, bdt, bdt2, bdtc>>

\* bdt2 = BusinessDatetime(dt2, working_hours, working_days); bdt was built
\* from the same working hours, so this one does not raise
NewBusinessDatetime2 ==
    /\ pc = "bdt"
    /\ \E dt2 \in Timestamps :
         /\ BusinessDatetimeInitOK(dt2, working_hours)
         /\ bdt2' = BusinessDatetimeInit(dt2, working_hours, working_days)
    /\ pc' = "bdt2"
    /\ UNCHANGED <<working_hours, working_days, bdt, bdtc, out>>

\* print bdt - bdt2
SubBusinessDatetimes ==
    /\ pc = "bdt2"
    /\ out' = [op |-> "sub",
               args |-> <<bdt.original_datetime, bdt2.original_datetime>>,
               ret |-> Sub(bdt, bdt2)]
    /\ pc' = IF Sub(bdt, bdt2).err = "none" THEN "subbed" ELSE "raised"
    /\ UNCHANGED <<working_hours, working_days, bdt, bdt2, bdtc>>

\* bdtc = BusinessDatetimeCalculator(working_hours, working_days)
NewCalculator ==
    /\ pc = "start"
    /\ bdtc' = CalculatorInit(working_hours, working_days)
    /\ pc' = "bdtc"
    /\ UNCHANGED <<working_hours, working_days, bdt, bdt2, out>>

\* print bdtc.subtract(d1, d2)
CalculatorSubtract ==
    /\ pc = "bdtc"
    /\ \E d1, d2 \in Timestamps :
         /\ out' = [op |-> "subtract", args |-> <<d1, d2>>,
                    ret |-> subtract(bdtc, d1, d2)]
         /\ pc' = IF subtract(bdtc, d1, d2).err = "none" THEN "subtracted"
                  ELSE "raised"
    /\ UNCHANGED <<working_hours, working_days, bdt, bdt2, bdtc>>

Next ==
    \/ NewBusinessDatetime
    \/ PrintBusinessDatetime
    \/ NewBusinessDatetime2
    \/ SubBusinessDatetimes
    \/ NewCalculator
    \/ CalculatorSubtract

Spec == Init /\ [][Next]_vars

(***************************************************************************)
(* The vocabulary of the properties: the clock the caller configured.      *)
(***************************************************************************)
\* 0 <= start < end < 24 (in eighths of an hour) and some working weekday
ValidClock ==
    /\ 0 <= working_hours[1]
    /\ working_hours[1] < working_hours[2]
    /\ working_hours[2] < 24 * 8
    /\ working_days # {}
    /\ working_days \subseteq 0..6

\* the business-start and business-end of the calendar date with day number n
BusinessStart(n) ==
    n * SecondsPerDay
    + (WorkingHour(working_hours[1]) * 60 + WorkingMinute(working_hours[1])) * 60

BusinessEnd(n) ==
    n * SecondsPerDay
    + (WorkingHour(working_hours[2]) * 60 + WorkingMinute(working_hours[2])) * 60

WorkdaySeconds == BusinessEnd(0) - BusinessStart(0)

IsWorkingDate(n) == Weekday(n * SecondsPerDay) \in working_days

Abs(x) == IF x < 0 THEN -x ELSE x

\* the call that has just returned normally
Normalized == out.op = "business_datetime" /\ out.ret.err = "none"
Subbed == out.op = "sub" /\ out.ret.err = "none"
Subtracted == out.op = "subtract" /\ out.ret.err = "none"

\* the normalisation of a raw timestamp under the configured clock
NormalizedOf(dt) ==
    business_datetime(BusinessDatetimeInit(dt, working_hours, working_days)).val

(***************************************************************************)
(* C1: under a valid clock, the normalized timestamp lies between the      *)
(* business-start and the business-end of the calendar date it falls on.   *)
(***************************************************************************)
C1_NormalizedWithinWindow ==
    (ValidClock /\ Normalized) =>
        /\ BusinessStart(DateOrd(out.ret.val)) <= out.ret.val
        /\ out.ret.val <= BusinessEnd(DateOrd(out.ret.val))

C4_Antisymmetric ==
    ValidClock =>
        /\ Subbed =>
              /\ Sub(bdt2, bdt).err = "none"
              /\ out.ret.val = -(Sub(bdt2, bdt).val)
        /\ Subtracted =>
              out.ret.val = -(subtract(bdtc, out.args[2], out.args[1]).val)

(***************************************************************************)
(* C5: under a valid clock, the difference of a timestamp with itself is   *)
(* zero seconds, for bdt - bdt2 built from the same timestamp and for      *)
(* subtract(a, a), wherever the timestamp lies.                            *)
(***************************************************************************)
C5_SelfDifferenceZero ==
    (ValidClock /\ out.op \in {"sub", "subtract"} /\ out.args[1] = out.args[2]) =>
        /\ out.ret.err = "none"
        /\ out.ret.val = 0

\* a Saturday night, rolled forward, minus itself
C5_Witness ==
    /\ ValidClock
    /\ Subbed
    /\ out.args = <<Datetime(2016, 6, 4, 23, 59, 59), Datetime(2016, 6, 4, 23, 59, 59)>>
    /\ out_of_bounds(bdt)
    /\ ~IsWorkingDate(DateOrd(bdt.original_datetime))
    /\ out.ret.val = 0

(***************************************************************************)
(* C6: when the two normalized endpoints fall on the same calendar date,   *)
(* the difference is greater - lesser (here: up to its sign), for          *)
(* bdt - bdt2 and for subtract, also when an endpoint was rolled onto      *)
(* that date.                                                              *)
(***************************************************************************)
C6_SameDayDifference ==
    ValidClock =>
        /\ Subbed =>
              LET a == business_datetime(bdt).val
                  b == business_datetime(bdt2).val
              IN  DateOrd(a) = DateOrd(b) => Abs(out.ret.val) = Max(a, b) - Min(a, b)
        /\ Subtracted =>
              LET a == NormalizedOf(out.args[1])
                  b == NormalizedOf(out.args[2])
              IN  DateOrd(a) = DateOrd(b) => Abs(out.ret.val) = Max(a, b) - Min(a, b)

(***************************************************************************)
(* C7: a clock with start >= end, a fraction outside [0, 24) or no working *)
(* weekday is refused at construction: no BusinessDatetime and no          *)
(* BusinessDatetimeCalculator exists with such a configuration, and no     *)
(* later call raises.                                                      *)
(***************************************************************************)
C7_InvalidClockRefused ==
    /\ (bdt # None \/ bdt2 # None \/ bdtc # None) => ValidClock
    /\ (pc = "raised" /\ out.ret.err # "none") => out.op = "BusinessDatetime"

(***************************************************************************)
(* C8: normalisation under any clock that could be constructed returns     *)
(* without raising, and the weekday search takes at most 7 day-steps.      *)
(***************************************************************************)
C8_NormalizationTerminates ==
    out.op = "business_datetime" =>
        /\ out.ret.err = "none"
        /\ out.ret.steps <= 7

(***************************************************************************)
(* C9: for lesser and greater on different calendar dates, the day walk    *)
(* steps once per calendar day from lesser's date to greater's date:       *)
(* day_difference is the number of days between the two dates,             *)
(* dont_count_days the number of non-working dates in (lesser's date,      *)
(* greater's date], and the result is remaining + passed +                 *)
(* (day_difference - 1 - dont_count_days) * workday seconds.               *)
(***************************************************************************)
DayWalkAsClaimed(lesser, greater, ret) ==
    LET lo == DateOrd(lesser)
        hi == DateOrd(greater)
        nonWorking == Cardinality({n \in (lo + 1)..hi : ~IsWorkingDate(n)})
    IN  lo # hi =>
          /\ ret.day_difference = hi - lo
          /\ ret.dont_count_days = nonWorking
          /\ ret.val = (BusinessEnd(lo) - lesser) + (greater - BusinessStart(hi))
                       + (hi - lo - 1 - nonWorking) * WorkdaySeconds

C9_DayWalkCountsCalendarDays ==
    ValidClock =>
        /\ Subbed =>
              LET a == business_datetime(bdt).val
                  b == business_datetime(bdt2).val
              IN  DayWalkAsClaimed(Min(a, b), Max(a, b), out.ret)
        /\ Subtracted =>
              DayWalkAsClaimed(Min(out.args[1], out.args[2]),
                               Max(out.args[1], out.args[2]), out.ret)

====
